---- MODULE Spec2Model ----
(***************************************************************************)
(* The XBoard dashboard front-end as a state machine: the Home page        *)
(* (src/src/app/page.tsx) holding the session, and the Dashboard component *)
(* (src/src/app/components/Dashboard.tsx) with its fetch cycles, polling   *)
(* timer, manual refresh and automatic webhook setup; the login and        *)
(* register forms (src/unnamed/part_000, part_001) that open the session.  *)
(*                                                                         *)
(* One action is one run of the event loop: a user event, a timer callback *)
(* or the arrival of one HTTP response together with every continuation    *)
(* (microtask) it resumes and the React commit that follows.               *)
(***************************************************************************)
EXTENDS Integers, FiniteSets, Sequences, TLC

\* ---------------------------------------------------------------- bounds
MaxWork  == 4        \* Dashboard mounts + fetchAllData calls + effect re-runs
MaxInst  == 2        \* Dashboard instances mounted over a run
MaxTicks == 2        \* ticks of the clock over a run
MaxOrders  == 5      \* largest total_orders of a rendered overview
MaxRevenue == 12     \* largest small total_revenue of a rendered overview
MaxSubmits == 3      \* submissions of the login and register forms over a run

\* ------------------------------------------------------ program constants
PollPeriod == 15000  \* setInterval period
Cooldown   == 30000  \* setTimeout delay after a failed webhook setup

Tick == PollPeriod   \* granularity of the clock

\* The requests of one fetchAllData call: five mandatory ones (/me, /overview,
\* /orders-by-date, /top-customers, /recent-orders), which the Promise.all handles
\* alike, and /webhook-status, which has a .catch of its own.
\* The code observes nothing of a cycle until its Promise.all settles, so a cycle
\* keeps a phase and not the set of requests that have answered:
\*   "pending"   the six requests are issued and the Promise.all is pending,
\*               whichever of them have answered so far
\*   "rejected"  a mandatory request failed: the Promise.all has rejected, and
\*               other requests of the cycle are still in flight

\* class of a response: 2xx, 401/403, or any other failure
Classes == {"ok", "auth", "other"}

\* err.response?.status of a failed request; 0 stands for every status but 401
\* and 403, and for no response at all
AuthStatuses == {401, 403}
FailStatuses == AuthStatuses \cup {0}
Class(s) == IF s \in AuthStatuses THEN "auth" ELSE "other"

NoToken == 0        \* localStorage.getItem('authToken') gives null
NoTimer == 0        \* pollingIntervalRef.current is null

Insts == 1..MaxInst

VARIABLES
  now,                    \* wall clock, ms
  token,                  \* localStorage 'authToken' (NoToken: absent)
  isAuthenticated,        \* Home state
  pageLoading,            \* Home state `loading`
  mounted,                \* the mounted Dashboard instance, 0 when none is
  nInst,                  \* instances created so far
  userInfo, overview, ordersByDate, topCustomers, recentOrders,
                          \* display entities of the mounted instance: the id
                          \* of the cycle whose response they hold, 0 initially
  webhookStatus,          \* [cycle, data]; data is "null", "active", "inactive"
  loading, refreshing,    \* Dashboard flags of the mounted instance
  lastDashboardUpdate,    \* Date of the last successful fetch
  webhookSetupAttempted,  \* the ref, one per instance
  pollingIntervalRef,     \* the ref, one per instance: a timer id or NoTimer
  intervals,              \* active setInterval timers: [id, inst, due]
  nTimers,                \* timer ids handed out
  cycles,                 \* outstanding fetchAllData calls, by cycle id
  nCycles,                \* fetchAllData calls started so far
  syncs,                  \* POST /sync requests in flight, per instance
  setups,                 \* POST /auth/setup-webhooks in flight, per instance
  cooldowns,              \* pending setTimeout callbacks: [inst, due]
  nRerun,                 \* polling effect re-runs so far
  lastFailAt,             \* history: time of the last failed setup, per instance
  last,                   \* history: what the last step did
  refreshInCooldown,      \* history: the manual refresh under way on the mounted
                          \* dashboard began while a cooldown of it was pending
  avgView,                \* a render of the overview: its fields and avgOrderValue
  form                    \* Home's showRegister, `loading` and `error` of the
                          \* form that is rendered, the requests in flight of
                          \* forms unmounted since (orphans, per form), the
                          \* submissions so far (nSubmits), and as history the
                          \* last response to a form's request (answer)

vars == <<now, token, isAuthenticated, pageLoading, mounted, nInst,
          userInfo, overview, ordersByDate, topCustomers, recentOrders,
          webhookStatus, loading, refreshing, lastDashboardUpdate,
          webhookSetupAttempted, pollingIntervalRef, intervals, nTimers,
          cycles, nCycles, syncs, setups, cooldowns, nRerun, lastFailAt, last,
          refreshInCooldown, avgView, form>>

homeVars    == <<token, isAuthenticated, pageLoading, mounted, nInst>>
entityVars  == <<userInfo, overview, ordersByDate, topCustomers, recentOrders,
                 webhookStatus, lastDashboardUpdate>>
flagVars    == <<loading, refreshing>>
timerVars   == <<pollingIntervalRef, intervals, nTimers, nRerun>>
remedyVars  == <<webhookSetupAttempted, setups, cooldowns, lastFailAt>>

\* ------------------------------------------------------------ helpers
NoStatus == [cycle |-> 0, data |-> "null"]

\* history of the last step, its inputs only: what happened (kind), to which
\* cycle, whether the instance concerned was mounted (alive), the request that
\* was answered (req) and the class of the response (cls), the webhook-status
\* outcome of a successful cycle (data), and the calls of onLogout made so far by the cycle or operation (logouts)
NoEv == [kind |-> "none", cycle |-> 0, alive |-> FALSE, req |-> "none",
         cls |-> "none", data |-> "none", logouts |-> 0]

Dec(f, i) == [f EXCEPT ![i] = @ - 1]
Inc(f, i) == [f EXCEPT ![i] = @ + 1]

\* clearInterval(id): the timer with that id is no longer active
clearIntervalNoop(ts, id) == ts
clearInterval(ts, id) == {t \in ts : t.id # id}

\* which request failures reject the Promise.all of a cycle: every one but
\* webhook-status, whose .catch turns a failure into { data: null }
RejectsAny(e) == TRUE
Rejects(e) == e = "mandatory"

\* fetchAllData's catch: status === 401 || status === 403
ShouldLogoutOn401Only(status) == status = 401
ShouldLogoutOnAnyFailure(status) == TRUE
ShouldLogout(status) == status \in AuthStatuses

\* handleManualRefresh's catch: status === 401 || status === 403
ShouldLogoutSyncNever(status) == FALSE
ShouldLogoutSyncAlways(status) == TRUE
ShouldLogoutSync(status) == status \in AuthStatuses

\* the six setters and setLastDashboardUpdate(new Date()) of a successful cycle
\* c whose webhook-status data is d
AppliedSkippingOverview(c, d) ==
  <<c, overview, c, c, c, [cycle |-> c, data |-> d], now>>
AppliedUnlessOlder(c, d) ==
  IF c < userInfo
    THEN <<userInfo, overview, ordersByDate, topCustomers, recentOrders,
           webhookStatus, lastDashboardUpdate>>
    ELSE <<c, c, c, c, c, [cycle |-> c, data |-> d], now>>
Applied(c, d) == <<c, c, c, c, c, [cycle |-> c, data |-> d], now>>

\* webhookRes.data && !webhookRes.data.webhooks_active && !webhookSetupAttempted.current
ShouldSetupNever(i, d) == FALSE
ShouldSetupAnyStatus(i, d) == d # "null" /\ ~webhookSetupAttempted[i]
ShouldSetup(i, d) == d = "inactive" /\ ~webhookSetupAttempted[i]

\* webhookSetupAttempted.current = true, at the start of an attempt
AttemptedNotSet(i) == webhookSetupAttempted
AttemptedAfterStart(i) == [webhookSetupAttempted EXCEPT ![i] = TRUE]

\* the ref right after a failed attempt: still set, the timeout clears it later
AttemptedClearedAtOnce(i) == [webhookSetupAttempted EXCEPT ![i] = FALSE]
AttemptedAfterFailure(i) == webhookSetupAttempted

\* webhookSetupAttempted.current = false, once the awaited follow-up
\* fetchAllData(true) has returned
AttemptedKeptAfterFollowUp(w, i) == w
AttemptedAfterFollowUp(w, i) == [w EXCEPT ![i] = FALSE]

\* the caller that awaited fetchAllData goes on to clear the guard: only
\* setupWebhooksAutomatically does (the follow-up call of line 102)
ClearsGuardOfRefreshToo(origin) == origin \in {"followup", "manual"}
ClearsGuard(origin) == origin = "followup"

\* a setTimeout callback of instance i is pending
CooldownPending(i) == \E cd \in cooldowns : cd.inst = i

\* fetchAllData's finally: if (!silent) setLoading(false)
LoadingClearedAlways(silent) == FALSE
LoadingAfterReturn(silent) == IF silent THEN loading ELSE FALSE

\* the refresh button is rendered only when not loading, and disabled={refreshing}
RefreshEnabledWhileRefreshing == mounted # 0 /\ ~loading
RefreshEnabledWhileLoading == mounted # 0 /\ ~refreshing
RefreshEnabled == mounted # 0 /\ ~loading /\ ~refreshing

NewCycle(i, silent, origin) ==
  [inst |-> i, silent |-> silent, origin |-> origin, phase |-> "pending",
   logouts |-> 0]

\* the slot of a cycle that has not started or has no request pending any more
NoCycle ==
  [inst |-> 0, silent |-> FALSE, origin |-> "none", phase |-> "none",
   logouts |-> 0]

CycleIds == 1..MaxWork

\* what a run has spent of its bound
Work == nInst + nCycles + nRerun
Running(c) == cycles[c].phase = "pending"

\* the record of a cycle whose Promise.all has rejected, while `more` of its
\* requests are in flight; its slot is free once none is
Rejected(rec, n, more) ==
  IF more THEN [NoCycle EXCEPT !.inst = rec.inst, !.phase = "rejected",
                               !.logouts = n]
  ELSE NoCycle

\* overview of the first render: useState<Overview | null>(null)
NoView == [present |-> FALSE, total_orders |-> 0, total_revenue |-> 0, avg |-> 0]

\* the two forms of Home; the one rendered when no session is authenticated
Forms == {"login", "register"}

\* what comes back to a form's POST: a 2xx response with a body (an absent
\* field is the empty string, as falsy as it), a 2xx response without a body,
\* or an AxiosError with or without an error message of the server
AuthOutcomes ==
  [kind : {"body"}, success : BOOLEAN, token : {"", "t"}, error : {"", "server"}]
    \cup [kind : {"axiosError", "nullData"}, success : {FALSE}, token : {""},
          error : {"", "server"}]

\* no response yet
NoAuth == [form |-> "none", live |-> FALSE, kind |-> "none", success |-> FALSE,
           token |-> "", error |-> ""]

\* Home shows the login form, which is idle: useState(false), useState('')
NoForm == [showRegister |-> FALSE, loading |-> FALSE, error |-> "",
           orphans |-> [f \in Forms |-> 0], nSubmits |-> 0, answer |-> NoAuth]

\* ------------------------------------------------------------ initial state
Init ==
  /\ now = 0
  /\ token \in {NoToken, 1}
  /\ isAuthenticated = FALSE
  /\ pageLoading = TRUE
  /\ mounted = 0
  /\ nInst = 0
  /\ userInfo = 0 /\ overview = 0 /\ ordersByDate = 0
  /\ topCustomers = 0 /\ recentOrders = 0
  /\ webhookStatus = NoStatus
  /\ loading = FALSE /\ refreshing = FALSE
  /\ lastDashboardUpdate = 0 - 1
  /\ webhookSetupAttempted = [i \in Insts |-> FALSE]
  /\ pollingIntervalRef = [i \in Insts |-> NoTimer]
  /\ intervals = {}
  /\ nTimers = 0
  /\ cycles = [c \in CycleIds |-> NoCycle]
  /\ nCycles = 0
  /\ syncs = [i \in Insts |-> 0]
  /\ setups = [i \in Insts |-> 0]
  /\ cooldowns = {}
  /\ nRerun = 0
  /\ lastFailAt = [i \in Insts |-> 0 - 1]
  /\ last = NoEv
  /\ refreshInCooldown = FALSE
  /\ avgView = NoView
  /\ form = NoForm

\* ------------------------------------------------------------ building blocks
\* fetchAllData(silent) up to its await: the six requests are issued
StartCycle(i, silent, origin) ==
  /\ Work < MaxWork
  /\ nCycles' = nCycles + 1
  /\ cycles' = [cycles EXCEPT ![nCycles + 1] = NewCycle(i, silent, origin)]

\* the polling effect's body: clear the stored interval, fetch, start a new one
EffectBody(i, ts) ==
  /\ StartCycle(i, FALSE, "initial")
  /\ nTimers' = nTimers + 1
  /\ intervals' = clearInterval(ts, pollingIntervalRef[i])
                    \cup {[id |-> nTimers + 1, inst |-> i, due |-> now + PollPeriod]}
  /\ pollingIntervalRef' = [pollingIntervalRef EXCEPT ![i] = nTimers + 1]

\* the polling effect's cleanup
EffectCleanupNoop(i, ts) == ts
EffectCleanup(i, ts) == clearInterval(ts, pollingIntervalRef[i])

\* <Dashboard/> is rendered for the first time and its effect runs
Mount ==
  /\ nInst < MaxInst
  /\ Work + 1 < MaxWork
  /\ nInst' = nInst + 1
  /\ mounted' = nInst + 1
  /\ userInfo' = 0 /\ overview' = 0 /\ ordersByDate' = 0
  /\ topCustomers' = 0 /\ recentOrders' = 0
  /\ webhookStatus' = NoStatus
  /\ loading' = TRUE /\ refreshing' = FALSE
  /\ refreshInCooldown' = FALSE
  /\ lastDashboardUpdate' = now
  /\ EffectBody(nInst + 1, intervals)
  /\ UNCHANGED nRerun

\* the state of a Dashboard that is not rendered
ResetDisplay ==
  /\ userInfo' = 0 /\ overview' = 0 /\ ordersByDate' = 0
  /\ topCustomers' = 0 /\ recentOrders' = 0
  /\ webhookStatus' = NoStatus
  /\ loading' = FALSE /\ refreshing' = FALSE
  /\ refreshInCooldown' = FALSE
  /\ lastDashboardUpdate' = 0 - 1

\* Home.handleLogout, and the unmount of the Dashboard that follows
DoLogoutKeepingToken ==
  /\ isAuthenticated' = FALSE
  /\ mounted' = 0
  /\ UNCHANGED <<token, pageLoading, nInst>>
  /\ ResetDisplay
  /\ intervals' = IF mounted # 0 THEN EffectCleanup(mounted, intervals) ELSE intervals
  /\ UNCHANGED <<pollingIntervalRef, nTimers, nRerun>>
DoLogout ==
  /\ token' = NoToken
  /\ isAuthenticated' = FALSE
  /\ mounted' = 0
  /\ UNCHANGED <<pageLoading, nInst>>
  /\ ResetDisplay
  /\ intervals' = IF mounted # 0 THEN EffectCleanup(mounted, intervals) ELSE intervals
  /\ UNCHANGED <<pollingIntervalRef, nTimers, nRerun>>

\* ------------------------------------------------------------ Home
\* Home's effect: the initial check of localStorage
PageEffect ==
  /\ pageLoading
  /\ pageLoading' = FALSE
  /\ IF token # NoToken
       THEN /\ isAuthenticated' = TRUE
            /\ Mount
            /\ last' = [NoEv EXCEPT !.kind = "mount", !.cycle = nCycles + 1,
                                    !.alive = TRUE]
       ELSE /\ UNCHANGED <<isAuthenticated, mounted, nInst, entityVars, flagVars,
                           refreshInCooldown, timerVars, cycles, nCycles>>
            /\ last' = [NoEv EXCEPT !.kind = "pageEffect"]
  /\ UNCHANGED <<now, avgView, form, token, remedyVars, syncs>>

\* Home.handleLoginSuccess(token), called by a form on a successful response
handleLoginSuccess ==
  /\ ~pageLoading /\ ~isAuthenticated
  /\ token' = nInst + 1
  /\ isAuthenticated' = TRUE
  /\ Mount
  /\ last' = [NoEv EXCEPT !.kind = "mount", !.cycle = nCycles + 1, !.alive = TRUE]
  /\ UNCHANGED <<now, avgView, form, pageLoading, remedyVars, syncs>>

\* the Logout button of the Dashboard, rendered once `loading` is false
LogoutEnabled == mounted # 0 /\ ~loading

handleLogout ==
  /\ LogoutEnabled
  /\ DoLogout
  /\ last' = [NoEv EXCEPT !.kind = "logout", !.alive = TRUE, !.logouts = 1]
  /\ UNCHANGED <<now, avgView, form, cycles, nCycles, remedyVars, syncs>>

\* ------------------------------------------------------------ time and timers
Advance ==
  /\ now + Tick <= MaxTicks * Tick
  /\ now' = now + Tick
  /\ last' = [NoEv EXCEPT !.kind = "tick"]
  /\ UNCHANGED <<avgView, form, refreshInCooldown, homeVars, entityVars, flagVars, timerVars, cycles, nCycles,
                 remedyVars, syncs>>

\* the setInterval callback: fetchAllData(true)
PollFireNonSilent(t) ==
  /\ t \in intervals
  /\ t.due <= now
  /\ StartCycle(t.inst, FALSE, "timer")
  /\ intervals' = (intervals \ {t}) \cup {[t EXCEPT !.due = now + PollPeriod]}
  /\ last' = [NoEv EXCEPT !.kind = "start", !.cycle = nCycles + 1,
                          !.alive = (mounted = t.inst)]
  /\ UNCHANGED <<now, avgView, form, refreshInCooldown, homeVars, entityVars, flagVars, pollingIntervalRef, nTimers,
                 nRerun, remedyVars, syncs>>
PollFire(t) ==
  /\ t \in intervals
  /\ t.due <= now
  /\ StartCycle(t.inst, TRUE, "timer")
  /\ intervals' = (intervals \ {t}) \cup {[t EXCEPT !.due = now + PollPeriod]}
  /\ last' = [NoEv EXCEPT !.kind = "start", !.cycle = nCycles + 1,
                          !.alive = (mounted = t.inst)]
  /\ UNCHANGED <<now, avgView, form, refreshInCooldown, homeVars, entityVars, flagVars, pollingIntervalRef, nTimers,
                 nRerun, remedyVars, syncs>>

\* React runs the polling effect again on the mounted instance (its dependency
\* fetchAllData has a new identity, or a development double invocation): the
\* cleanup of the previous run, then the body
EffectRerun ==
  /\ mounted # 0
  /\ Work + 1 < MaxWork
  /\ nRerun' = nRerun + 1
  /\ EffectBody(mounted, EffectCleanup(mounted, intervals))
  /\ loading' = TRUE
  /\ last' = [NoEv EXCEPT !.kind = "start", !.cycle = nCycles + 1, !.alive = TRUE]
  /\ UNCHANGED <<now, avgView, form, refreshInCooldown, homeVars, entityVars, refreshing, remedyVars, syncs>>

\* ------------------------------------------------------------ fetchAllData
\* a response that settles nothing: the Promise.all is still pending. It is a 2xx
\* response, or a failure of webhook-status, which its .catch absorbs
ResponseOk(c) ==
  /\ Running(c)
  /\ last' = [NoEv EXCEPT !.kind = "partial"]
  /\ UNCHANGED <<now, avgView, form, refreshInCooldown, homeVars, entityVars, flagVars, timerVars, cycles, nCycles,
                 remedyVars, syncs>>

\* a response to a mandatory request of a cycle whose Promise.all has already
\* rejected: nothing is awaiting it. (A late answer of webhook-status ends in its
\* own .catch and is a stuttering step.)
LateResponseCaught(c, cls, more) ==
  /\ cycles[c].phase = "rejected"
  /\ cycles' = [cycles EXCEPT ![c] =
                  Rejected(@, IF cls = "auth" THEN @.logouts + 1 ELSE @.logouts, more)]
  /\ last' = [NoEv EXCEPT !.kind = "late", !.req = "mandatory", !.cls = cls,
                          !.logouts = cycles[c].logouts + (IF cls = "auth" THEN 1 ELSE 0)]
  /\ IF cls = "auth"
       THEN DoLogout
       ELSE UNCHANGED <<homeVars, entityVars, flagVars, refreshInCooldown, timerVars>>
  /\ UNCHANGED <<now, avgView, form, nCycles, remedyVars, syncs>>
LateResponse(c, cls, more) ==
  /\ cycles[c].phase = "rejected"
  /\ cycles' = [cycles EXCEPT ![c] = Rejected(@, @.logouts, more)]
  /\ last' = [NoEv EXCEPT !.kind = "late", !.req = "mandatory", !.cls = cls,
                          !.logouts = cycles[c].logouts]
  /\ UNCHANGED <<now, avgView, form, refreshInCooldown, homeVars, entityVars, flagVars, timerVars, nCycles,
                 remedyVars, syncs>>

\* the Promise.all resolves: the try block after the await, the finally block,
\* and the continuation of the caller that awaited fetchAllData. d is the data of
\* the webhook-status result ("failed": the request failed, its .catch gave null)
Success(c, d, cls) ==
  LET rec    == cycles[c]
      i      == rec.inst
      data   == IF d = "failed" THEN "null" ELSE d
      alive  == mounted = i
      a      == Applied(c, data)
      \* line 141, then the guard at the head of setupWebhooksAutomatically
      issued == ShouldSetup(i, data) /\ ~webhookSetupAttempted[i]
      w1     == IF issued THEN AttemptedAfterStart(i) ELSE webhookSetupAttempted
  IN
  /\ IF alive
       THEN /\ userInfo' = a[1] /\ overview' = a[2] /\ ordersByDate' = a[3]
            /\ topCustomers' = a[4] /\ recentOrders' = a[5]
            /\ webhookStatus' = a[6] /\ lastDashboardUpdate' = a[7]
       ELSE UNCHANGED entityVars
  /\ loading' = IF alive THEN LoadingAfterReturn(rec.silent) ELSE loading
  /\ refreshing' = IF alive /\ rec.origin = "manual" THEN FALSE ELSE refreshing
  /\ refreshInCooldown' = (refreshing' /\ refreshInCooldown)
  /\ setups' = IF issued THEN Inc(setups, i) ELSE setups
  /\ webhookSetupAttempted' =
       IF ClearsGuard(rec.origin) THEN AttemptedAfterFollowUp(w1, i) ELSE w1
  /\ cycles' = [cycles EXCEPT ![c] = NoCycle]
  /\ last' = [NoEv EXCEPT !.kind = "success", !.cycle = c, !.alive = alive,
                          !.req = "webhook-status", !.cls = cls, !.data = d]
  /\ UNCHANGED <<now, avgView, form, homeVars, timerVars, nCycles, cooldowns, lastFailAt, syncs>>

\* the Promise.all rejects with the first failure, of request e with status s:
\* the catch block, the finally block, and the continuation of the caller that
\* awaited fetchAllData
Failure(c, e, s, more) ==
  LET rec   == cycles[c]
      i     == rec.inst
      alive == mounted = i
      n     == IF ShouldLogout(s) THEN 1 ELSE 0
  IN
  /\ IF ShouldLogout(s)
       THEN DoLogout
       ELSE /\ UNCHANGED <<homeVars, entityVars, timerVars>>
            /\ loading' = IF alive THEN LoadingAfterReturn(rec.silent) ELSE loading
            /\ refreshing' = IF alive /\ rec.origin = "manual" THEN FALSE
                             ELSE refreshing
            /\ refreshInCooldown' = (refreshing' /\ refreshInCooldown)
  /\ webhookSetupAttempted' =
       IF ClearsGuard(rec.origin)
         THEN AttemptedAfterFollowUp(webhookSetupAttempted, i)
         ELSE webhookSetupAttempted
  /\ cycles' = [cycles EXCEPT ![c] = Rejected(rec, n, more)]
  /\ last' = [NoEv EXCEPT !.kind = "fail", !.cycle = c, !.alive = alive,
                          !.req = e, !.cls = Class(s), !.logouts = n]
  /\ UNCHANGED <<now, avgView, form, nCycles, setups, cooldowns, lastFailAt, syncs>>

WebhookData == {"null", "active", "inactive"}

\* the last of the six requests of cycle c is answered, the five mandatory ones
\* with 2xx and webhook-status with data d
LastResponseOk(c, d) ==
  /\ Running(c)
  /\ Success(c, d, "ok")

\* a mandatory request of cycle c fails with status s (0: no response at all)
\* before the Promise.all has settled
MandatoryFail(c, s, more) ==
  /\ Running(c)
  /\ Failure(c, "mandatory", s, more)

\* the webhook-status request of cycle c fails with status s, the last of the six
\* to be answered: its .catch gives { data: null } to the Promise.all
WebhookFailLast(c, s) ==
  /\ Running(c)
  /\ IF Rejects("webhook-status")
       THEN Failure(c, "webhook-status", s, FALSE)
       ELSE Success(c, "failed", Class(s))

\* ------------------------------------------------------------ manual refresh
\* handleManualRefresh up to its first await: POST /sync is issued
handleManualRefreshNotAwaitingSync ==
  /\ RefreshEnabled
  /\ refreshing' = TRUE
  /\ loading' = TRUE
  /\ syncs' = Inc(syncs, mounted)
  /\ StartCycle(mounted, FALSE, "manual")
  /\ last' = [NoEv EXCEPT !.kind = "manual"]
  /\ UNCHANGED <<now, avgView, form, refreshInCooldown, homeVars, entityVars, timerVars,
                 remedyVars>>
handleManualRefresh ==
  /\ RefreshEnabled
  /\ refreshing' = TRUE
  /\ syncs' = Inc(syncs, mounted)
  /\ last' = [NoEv EXCEPT !.kind = "manual"]
  /\ UNCHANGED <<now, avgView, form, refreshInCooldown, homeVars, entityVars, loading,
                 timerVars, cycles, nCycles, remedyVars>>

\* handleManualRefresh, recording whether a cooldown is pending as it begins
handleManualRefreshRecorded ==
  /\ RefreshEnabled
  /\ refreshing' = TRUE
  /\ syncs' = Inc(syncs, mounted)
  /\ refreshInCooldown' = CooldownPending(mounted)
  /\ last' = [NoEv EXCEPT !.kind = "manual"]
  /\ UNCHANGED <<now, avgView, form, homeVars, entityVars, loading, timerVars,
                 cycles, nCycles, remedyVars>>

\* POST /sync succeeds: handleManualRefresh goes on to fetchAllData()
SyncOk(i) ==
  /\ syncs[i] > 0
  /\ syncs' = Dec(syncs, i)
  /\ StartCycle(i, FALSE, "manual")
  /\ loading' = IF mounted = i THEN TRUE ELSE loading
  /\ last' = [NoEv EXCEPT !.kind = "start", !.cycle = nCycles + 1,
                          !.alive = (mounted = i)]
  /\ UNCHANGED <<now, avgView, form, refreshInCooldown, homeVars, entityVars, refreshing, timerVars, remedyVars>>

\* POST /sync fails: handleManualRefresh's catch and finally
SyncFailWithoutFinally(i, s) ==
  /\ syncs[i] > 0
  /\ syncs' = Dec(syncs, i)
  /\ IF ShouldLogoutSync(s)
       THEN DoLogout
       ELSE UNCHANGED <<homeVars, entityVars, flagVars, refreshInCooldown, timerVars>>
  /\ last' = [NoEv EXCEPT !.kind = "syncFail", !.alive = (mounted = i),
                          !.req = "sync", !.cls = Class(s),
                          !.logouts = IF ShouldLogoutSync(s) THEN 1 ELSE 0]
  /\ UNCHANGED <<now, avgView, form, cycles, nCycles, remedyVars>>
SyncFail(i, s) ==
  /\ syncs[i] > 0
  /\ syncs' = Dec(syncs, i)
  /\ IF ShouldLogoutSync(s)
       THEN DoLogout
       ELSE /\ UNCHANGED <<homeVars, entityVars, loading, timerVars>>
            /\ refreshing' = IF mounted = i THEN FALSE ELSE refreshing
            /\ refreshInCooldown' = (refreshing' /\ refreshInCooldown)
  /\ last' = [NoEv EXCEPT !.kind = "syncFail", !.alive = (mounted = i),
                          !.req = "sync", !.cls = Class(s),
                          !.logouts = IF ShouldLogoutSync(s) THEN 1 ELSE 0]
  /\ UNCHANGED <<now, avgView, form, cycles, nCycles, remedyVars>>

\* ------------------------------------------------------------ webhook setup
\* POST /auth/setup-webhooks succeeds: the follow-up fetchAllData(true) starts
SetupOk(i) ==
  /\ setups[i] > 0
  /\ setups' = Dec(setups, i)
  /\ StartCycle(i, TRUE, "followup")
  /\ last' = [NoEv EXCEPT !.kind = "start", !.cycle = nCycles + 1,
                          !.alive = (mounted = i)]
  /\ UNCHANGED <<now, avgView, form, refreshInCooldown, homeVars, entityVars, flagVars, timerVars,
                 webhookSetupAttempted, cooldowns, lastFailAt, syncs>>

\* POST /auth/setup-webhooks fails: the catch block schedules the timeout
SetupFailEndingSession(i, s) ==
  /\ setups[i] > 0
  /\ setups' = Dec(setups, i)
  /\ webhookSetupAttempted' = AttemptedAfterFailure(i)
  /\ cooldowns' = cooldowns \cup {[inst |-> i, due |-> now + Cooldown]}
  /\ lastFailAt' = [lastFailAt EXCEPT ![i] = now]
  /\ last' = [NoEv EXCEPT !.kind = "setupFail", !.alive = (mounted = i),
                          !.req = "setup-webhooks", !.cls = Class(s)]
  /\ IF ShouldLogout(s)
       THEN DoLogout
       ELSE UNCHANGED <<homeVars, entityVars, flagVars, refreshInCooldown, timerVars>>
  /\ UNCHANGED <<now, avgView, form, cycles, nCycles, syncs>>
SetupFailWithoutTimeout(i, s) ==
  /\ setups[i] > 0
  /\ setups' = Dec(setups, i)
  /\ webhookSetupAttempted' = AttemptedAfterFailure(i)
  /\ lastFailAt' = [lastFailAt EXCEPT ![i] = now]
  /\ last' = [NoEv EXCEPT !.kind = "setupFail", !.alive = (mounted = i),
                          !.req = "setup-webhooks", !.cls = Class(s)]
  /\ UNCHANGED <<now, avgView, form, refreshInCooldown, homeVars, entityVars,
                 flagVars, timerVars, cycles, nCycles, syncs, cooldowns>>
SetupFail(i, s) ==
  /\ setups[i] > 0
  /\ setups' = Dec(setups, i)
  /\ webhookSetupAttempted' = AttemptedAfterFailure(i)
  /\ cooldowns' = cooldowns \cup {[inst |-> i, due |-> now + Cooldown]}
  /\ lastFailAt' = [lastFailAt EXCEPT ![i] = now]
  /\ last' = [NoEv EXCEPT !.kind = "setupFail", !.alive = (mounted = i),
                          !.req = "setup-webhooks", !.cls = Class(s)]
  /\ UNCHANGED <<now, avgView, form, refreshInCooldown, homeVars, entityVars, flagVars, timerVars, cycles, nCycles,
                 syncs>>

\* the setTimeout callback: webhookSetupAttempted.current = false
CooldownFireKeepingGuard(cd) ==
  /\ cd \in cooldowns
  /\ cd.due <= now
  /\ cooldowns' = cooldowns \ {cd}
  /\ last' = [NoEv EXCEPT !.kind = "cooldown"]
  /\ UNCHANGED <<now, avgView, form, refreshInCooldown, homeVars, entityVars,
                 flagVars, timerVars, cycles, nCycles, setups, lastFailAt, syncs,
                 webhookSetupAttempted>>
CooldownFire(cd) ==
  /\ cd \in cooldowns
  /\ cd.due <= now
  /\ cooldowns' = cooldowns \ {cd}
  /\ webhookSetupAttempted' = [webhookSetupAttempted EXCEPT ![cd.inst] = FALSE]
  /\ last' = [NoEv EXCEPT !.kind = "cooldown"]
  /\ UNCHANGED <<now, avgView, form, refreshInCooldown, homeVars, entityVars, flagVars, timerVars, cycles, nCycles,
                 setups, lastFailAt, syncs>>

\* ------------------------------------------------------------ specification
NextButRefresh ==
  \/ PageEffect
  \/ handleLoginSuccess
  \/ handleLogout
  \/ Advance
  \/ \E t \in intervals : PollFire(t)
  \/ EffectRerun
  \/ \E c \in CycleIds : ResponseOk(c)
  \/ \E c \in CycleIds, d \in WebhookData : LastResponseOk(c, d)
  \/ \E c \in CycleIds, s \in FailStatuses, more \in BOOLEAN : MandatoryFail(c, s, more)
  \/ \E c \in CycleIds, s \in FailStatuses : WebhookFailLast(c, s)
  \/ \E c \in CycleIds, cls \in Classes, more \in BOOLEAN :
        LateResponse(c, cls, more)
  \/ \E i \in Insts : SyncOk(i)
  \/ \E i \in Insts, s \in FailStatuses : SyncFail(i, s)
  \/ \E i \in Insts : SetupOk(i)
  \/ \E i \in Insts, s \in FailStatuses : SetupFail(i, s)
  \/ \E cd \in cooldowns : CooldownFire(cd)

Next ==
  \/ NextButRefresh
  \/ handleManualRefresh

Spec == Init /\ [][Next]_vars

\* the same, keeping the history of the manual refresh under way
NextRefresh ==
  \/ NextButRefresh
  \/ handleManualRefreshRecorded

SpecRefresh == Init /\ [][NextRefresh]_vars

\* every request is answered in the end, the clock advances, and a timeout
\* whose delay has passed runs its callback
RequestsSettle ==
  /\ \A i \in Insts :
       WF_vars(SetupOk(i) \/ \E s \in FailStatuses : SetupFail(i, s))
  /\ \A c \in CycleIds :
       WF_vars(\/ \E d \in WebhookData : LastResponseOk(c, d)
               \/ \E s \in FailStatuses, more \in BOOLEAN : MandatoryFail(c, s, more)
               \/ \E s \in FailStatuses : WebhookFailLast(c, s))
TimersFire ==
  /\ WF_vars(Advance)
  /\ \A i \in Insts : WF_vars(\E cd \in cooldowns : cd.inst = i /\ CooldownFire(cd))

SpecLive == Init /\ [][Next]_vars /\ RequestsSettle /\ TimersFire

\* ------------------------------------------------------------ avgOrderValue
\* Math.round(x / y) for y > 0: the nearest integer, a half rounded upwards
MathRoundDiv(x, y) == (2 * x + y) \div (2 * y)

\* overview && Number(overview.total_orders) > 0
\*   ? Math.round(Number(overview.total_revenue) / Number(overview.total_orders))
\*   : 0
\* of an overview whose two fields are the numerals of integers
avgOrderValueTruncating(present, total_orders, total_revenue) ==
  IF present /\ total_orders > 0 THEN total_revenue \div total_orders ELSE 0
avgOrderValue(present, total_orders, total_revenue) ==
  IF present /\ total_orders > 0
    THEN MathRoundDiv(total_revenue, total_orders)
    ELSE 0

\* the overviews rendered: none, or one with these fields
OrdersRange  == (0 - 1)..MaxOrders
RevenueRange == ((0 - MaxRevenue)..MaxRevenue) \cup {1000}

\* a render of the Dashboard with the overview it holds
Render(present, total_orders, total_revenue) ==
  /\ avgView' = [present |-> present, total_orders |-> total_orders,
                 total_revenue |-> total_revenue,
                 avg |-> avgOrderValue(present, total_orders, total_revenue)]
  /\ UNCHANGED <<now, homeVars, entityVars, flagVars, timerVars, cycles, nCycles,
                 remedyVars, syncs, last, refreshInCooldown, form>>

NextAvg ==
  \/ Render(FALSE, 0, 0)
  \/ \E o \in OrdersRange, r \in RevenueRange : Render(TRUE, o, r)

\* the renders of a dashboard, whatever else it does
SpecAvg == Init /\ [][NextAvg]_vars

\* ------------------------------------------------------------ login, register
\* a || b of two strings
JsOr(a, b) == IF a # "" THEN a ELSE b

\* response.data.success && response.data.token
AcceptedWithoutToken(o) == o.kind = "body" /\ o.success
Accepted(o) == o.kind = "body" /\ o.success /\ o.token # ""

\* the argument of setError: LoginForm reads response.data.success of a
\* response without a body, which throws a TypeError whose message it shows
LoginError(o) ==
  IF o.kind = "nullData" THEN "TypeError" ELSE JsOr(o.error, "Login failed")

\* RegisterForm reads response.data?.success, and falls back on the message of
\* the AxiosError
RegisterError(o) ==
  CASE o.kind = "body"       -> JsOr(o.error, "Registration failed")
    [] o.kind = "nullData"   -> "Registration failed"
    [] o.kind = "axiosError" ->
         JsOr(JsOr(o.error, "Request failed"), "Registration failed")

ErrorOf(f, o) == IF f = "login" THEN LoginError(o) ELSE RegisterError(o)

\* a form is rendered
FormShown == ~pageLoading /\ ~isAuthenticated
CurrentForm == IF form.showRegister THEN "register" ELSE "login"

\* the rendered form f is unmounted: its state is gone, the request it may
\* have in flight is not cancelled
Unmounted(f) ==
  [f EXCEPT !.loading = FALSE, !.error = "",
            !.orphans = IF f.loading THEN Inc(@, CurrentForm) ELSE @]

\* the onSuccess prop of both forms: Home.handleLoginSuccess(token), whether
\* called by the form rendered or by one unmounted since; the Dashboard is
\* rendered in place of the form unless it already is
onSuccess ==
  /\ token' = nInst + 1
  /\ IF isAuthenticated
       THEN UNCHANGED <<isAuthenticated, mounted, nInst, entityVars, flagVars,
                        refreshInCooldown, timerVars, cycles, nCycles>>
       ELSE /\ isAuthenticated' = TRUE
            /\ Mount
  /\ UNCHANGED <<now, avgView, pageLoading, remedyVars, syncs>>

\* what an action of a form leaves alone when it does not call onSuccess
FormOnly ==
  UNCHANGED <<now, avgView, homeVars, entityVars, flagVars, refreshInCooldown,
              timerVars, cycles, nCycles, remedyVars, syncs>>

\* the response o to a request of form f, sent by the form rendered or not
Answer(f, live, o) ==
  [form |-> f, live |-> live, kind |-> o.kind, success |-> o.success,
   token |-> o.token, error |-> o.error]

\* onSwitchToRegister, onSwitchToLogin
SwitchForm ==
  /\ FormShown
  /\ form' = [Unmounted(form) EXCEPT !.showRegister = ~@]
  /\ last' = [NoEv EXCEPT !.kind = "switch"]
  /\ FormOnly

\* handleChange of either form, after a message was shown
handleChange ==
  /\ FormShown
  /\ form.error # ""
  /\ form' = [form EXCEPT !.error = ""]
  /\ last' = [NoEv EXCEPT !.kind = "change"]
  /\ FormOnly

\* handleSubmit of the rendered form up to its await; the submit button is
\* disabled while `loading`
handleSubmit ==
  /\ FormShown
  /\ ~form.loading
  /\ form.nSubmits < MaxSubmits
  /\ form' = [form EXCEPT !.nSubmits = @ + 1, !.loading = TRUE, !.error = ""]
  /\ last' = [NoEv EXCEPT !.kind = "submit"]
  /\ FormOnly

\* the request of the rendered form is answered: the rest of handleSubmit
AuthResponse(o) ==
  /\ FormShown
  /\ form.loading
  /\ last' = [NoEv EXCEPT !.kind = "auth"]
  /\ IF Accepted(o)
       THEN /\ onSuccess
            /\ form' = [form EXCEPT !.loading = FALSE, !.error = "",
                                    !.answer = Answer(CurrentForm, TRUE, o)]
       ELSE /\ form' = [form EXCEPT !.loading = FALSE,
                                    !.error = ErrorOf(CurrentForm, o),
                                    !.answer = Answer(CurrentForm, TRUE, o)]
            /\ FormOnly

\* the request of a form unmounted since is answered: its setters do nothing,
\* its onSuccess is still Home.handleLoginSuccess
OrphanResponse(f, o) ==
  /\ form.orphans[f] > 0
  /\ last' = [NoEv EXCEPT !.kind = "auth"]
  /\ IF Accepted(o)
       THEN /\ onSuccess
            /\ form' = [(IF isAuthenticated THEN form ELSE Unmounted(form))
                          EXCEPT !.orphans = Dec(@, f),
                                 !.answer = Answer(f, FALSE, o)]
       ELSE /\ form' = [form EXCEPT !.orphans = Dec(@, f),
                                    !.answer = Answer(f, FALSE, o)]
            /\ FormOnly

\* Home with its two forms; of the dashboard, the return of a cycle and the
\* Logout button, which bring the forms back
NextAuth ==
  \/ PageEffect
  \/ SwitchForm
  \/ handleChange
  \/ handleSubmit
  \/ \E o \in AuthOutcomes : AuthResponse(o)
  \/ \E f \in Forms, o \in AuthOutcomes : OrphanResponse(f, o)
  \/ \E c \in CycleIds, d \in WebhookData : LastResponseOk(c, d)
  \/ handleLogout

SpecAuth == Init /\ [][NextAuth]_vars

\* ============================================================ properties
\* the five mandatory entities of the mounted instance hold the responses of
\* cycle c
FiveFrom(c) ==
  /\ userInfo = c /\ overview = c /\ ordersByDate = c
  /\ topCustomers = c /\ recentOrders = c

\* C1: the six display entities always hold the responses of one and the same
\* cycle (no state shows only some of them replaced), and when a cycle of the
\* mounted instance ends with all six requests answered 2xx, the six hold that
\* cycle's responses and the timestamp is the time of completion.
C1_AtomicReplace ==
  /\ FiveFrom(webhookStatus.cycle)
  /\ (last.kind = "success" /\ last.alive /\ last.data # "failed")
       => /\ FiveFrom(last.cycle)
          /\ webhookStatus = [cycle |-> last.cycle, data |-> last.data]
          /\ lastDashboardUpdate = now

\* C1 witness: a second or later cycle of the mounted instance has just
\* replaced all six entities and the timestamp
C1_Witness ==
  /\ last.kind = "success" /\ last.alive /\ last.data = "active"
  /\ last.cycle > 1
  /\ FiveFrom(last.cycle) /\ webhookStatus.cycle = last.cycle
  /\ lastDashboardUpdate = now /\ now > 0

\* C2 as stated: whenever a mandatory request of a cycle fails with a
\* non-authentication error, that cycle has not invoked the logout callback.
C2_AsStated ==
  (last.kind \in {"fail", "late"} /\ last.req = "mandatory" /\ last.cls = "other")
    => last.logouts = 0

\* C2 amended: when the first mandatory failure of a cycle to arrive is a
\* non-authentication error, the step changes none of the six display entities
\* nor the timestamp, does not invoke the logout callback, and leaves the token
\* and the session in place.
C2_FirstFailureNonAuth ==
  [][(last'.kind = "fail" /\ last'.req = "mandatory" /\ last'.cls = "other")
       => /\ UNCHANGED <<entityVars, token, isAuthenticated, mounted>>
          /\ last'.logouts = 0]_vars

\* C2 witness: a cycle of the mounted instance was rejected by a non-auth
\* failure and the display still holds the data of an earlier cycle
C2_Witness ==
  /\ last.kind = "fail" /\ last.req = "mandatory" /\ last.cls = "other"
  /\ last.alive /\ mounted # 0 /\ token # NoToken
  /\ userInfo # 0 /\ userInfo # last.cycle

\* C3 as stated: whenever a request of a cycle fails with 401 or 403, the cycle
\* has invoked the logout callback exactly once.
C3_AsStated ==
  (last.kind \in {"fail", "late", "success"} /\ last.cls = "auth")
    => last.logouts = 1

\* C3 amended: when the first mandatory failure of a cycle to arrive carries 401
\* or 403, the cycle invokes the logout callback exactly once (the token is
\* removed and the dashboard unmounted); no cycle invokes it more than once.
C3_FirstFailureAuth ==
  /\ (last.kind = "fail" /\ last.req = "mandatory" /\ last.cls = "auth")
       => /\ last.logouts = 1
          /\ token = NoToken /\ ~isAuthenticated /\ mounted = 0
  /\ \A c \in CycleIds : cycles[c].logouts <= 1

\* C3 witness: a mounted instance's cycle was rejected by a 401/403 and the
\* session is gone
C3_Witness ==
  /\ last.kind = "fail" /\ last.req = "mandatory" /\ last.cls = "auth"
  /\ last.alive /\ last.logouts = 1
  /\ token = NoToken /\ mounted = 0

\* C4: a failure of webhook-status, whatever its status, never fails the cycle:
\* the cycle succeeds, and on the mounted instance the five mandatory entities
\* and the timestamp are updated, webhookStatus is null, and the logout callback
\* is not invoked (the session stays).
C4_WebhookFailureAbsorbed ==
  (last.req = "webhook-status" /\ last.cls # "ok")
    => /\ last.kind = "success" /\ last.data = "failed"
       /\ last.logouts = 0
       /\ last.alive => /\ FiveFrom(last.cycle)
                        /\ webhookStatus = [cycle |-> last.cycle, data |-> "null"]
                        /\ lastDashboardUpdate = now
                        /\ mounted # 0 /\ token # NoToken /\ isAuthenticated

\* C4 witness: webhook-status failed with 401/403 in a later cycle and the
\* display was updated with a null webhookStatus
C4_Witness ==
  /\ last.kind = "success" /\ last.data = "failed" /\ last.cls = "auth"
  /\ last.alive /\ last.cycle > 1
  /\ FiveFrom(last.cycle) /\ webhookStatus.data = "null"
  /\ mounted # 0

\* C5: at most one setup-webhooks request is in flight for a dashboard instance,
\* and a step taken while the guard of an instance is set issues no
\* setup-webhooks request for it.
C5_OneSetupInFlight ==
  [][\A i \in Insts :
       /\ setups'[i] <= 1
       /\ webhookSetupAttempted[i] => setups'[i] <= setups[i]]_vars

\* C5 witness: a cycle of the mounted instance has just reported an inactive
\* integration while the guard was set, and no request was issued
C5_Witness ==
  /\ last.kind = "success" /\ last.data = "inactive" /\ last.alive
  /\ mounted # 0
  /\ webhookSetupAttempted[mounted]
  /\ setups[mounted] = 0

\* C6: a step issues a setup-webhooks request for an instance whose earlier
\* setup-webhooks request failed only when 30 seconds have passed since that
\* failure.
C6_CooldownRespected ==
  [][\A i \in Insts :
       (setups'[i] > setups[i] /\ lastFailAt[i] >= 0)
         => now >= lastFailAt[i] + Cooldown]_vars

\* C6 witness: 30 seconds after a failed attempt, a cycle that reported an
\* inactive integration has issued the next setup-webhooks request
C6_Witness ==
  /\ last.kind = "success" /\ last.data = "inactive"
  /\ mounted # 0
  /\ lastFailAt[mounted] >= 0
  /\ now >= lastFailAt[mounted] + Cooldown
  /\ setups[mounted] = 1 /\ webhookSetupAttempted[mounted]

\* C7 as stated: every fetch cycle is started on behalf of an instance that is
\* mounted, none after its teardown.
C7_NoFetchAfterTeardown ==
  last.kind = "start" => last.alive

\* C8 as stated: a response that arrives for an instance after its teardown
\* does not invoke the logout callback and does not trigger remediation.
C8_LateResponseDiscarded ==
  [][(last'.kind \in {"success", "fail", "syncFail"} /\ ~last'.alive)
       => /\ last'.logouts = 0
          /\ UNCHANGED <<token, isAuthenticated, mounted, setups>>]_vars

\* the polling timers of instance i that are active
TimersOf(i) == {t \in intervals : t.inst = i}

\* C9: an instance has at most one active polling timer, the one its ref holds,
\* and an instance that is not mounted has none.
C9_OneTimer ==
  \A i \in Insts :
    /\ Cardinality(TimersOf(i)) <= 1
    /\ \A t \in TimersOf(i) : t.id = pollingIntervalRef[i]
    /\ i # mounted => TimersOf(i) = {}

\* C9 witness: the polling effect has run again on the mounted instance, whose
\* only timer is the new one
C9_Witness ==
  /\ nRerun > 0 /\ mounted # 0
  /\ Cardinality(TimersOf(mounted)) = 1
  /\ pollingIntervalRef[mounted] > mounted
  /\ mounted > 1 => TimersOf(1) = {}

\* the cycles of instance i whose Promise.all is pending
RunningOf(i) == {c \in CycleIds : cycles[c].inst = i /\ Running(c)}

\* C10 as stated: an instance never has two fetch cycles with requests
\* outstanding.
C10_StrictlySequential ==
  \A i \in Insts : Cardinality({c \in CycleIds : cycles[c].inst = i}) <= 1

\* C10 amended: only manual refreshes are sequential: an instance has at most
\* one manual refresh under way (its POST /sync in flight, or the fetch cycle
\* that follows it pending); cycles of other origins overlap it and each other.
C10_ManualRefreshSequential ==
  \A i \in Insts :
    syncs[i] + Cardinality({c \in RunningOf(i) : cycles[c].origin = "manual"}) <= 1

\* C10 witness: a manual-refresh cycle and a timer-driven cycle of the mounted
\* instance are pending together
C10_Witness ==
  /\ mounted # 0
  /\ \E c \in RunningOf(mounted) : cycles[c].origin = "manual"
  /\ \E c \in RunningOf(mounted) : cycles[c].origin = "timer"

\* C11: a step in which a cycle succeeds with webhook status data whose
\* webhooks_active is false, while the guard of its instance is clear, issues
\* exactly one setup-webhooks request and sets the guard; the cycle is over in
\* that same step, without the request having been answered.
C11_SetupIssuedOnCompletion ==
  [][\A c \in CycleIds :
       (/\ last'.kind = "success" /\ last'.cycle = c /\ last'.data = "inactive"
        /\ Running(c)
        /\ ~webhookSetupAttempted[cycles[c].inst])
         => /\ setups'[cycles[c].inst] = setups[cycles[c].inst] + 1
            /\ cycles'[c] = NoCycle
            /\ cycles[c].origin # "followup"
                 => webhookSetupAttempted'[cycles[c].inst]]_vars

\* C11 witness: the initial cycle has just completed reporting an inactive
\* integration, its slot is free and the setup request is in flight
C11_Witness ==
  /\ last.kind = "success" /\ last.data = "inactive" /\ last.alive
  /\ last.cycle = 1 /\ cycles[1] = NoCycle
  /\ mounted = 1 /\ setups[1] = 1 /\ webhookSetupAttempted[1]
  /\ cooldowns = {} /\ lastFailAt[1] < 0

\* cycle c is a follow-up cycle (line 102) whose Promise.all is pending
FollowUp(c) == Running(c) /\ cycles[c].origin = "followup"

\* C12: a step in which a setup-webhooks request succeeds starts exactly one
\* cycle, a silent one, and leaves the guard set; while that follow-up cycle is
\* pending the guard of its instance is set; the step in which it completes
\* issues no setup-webhooks request, schedules no cooldown and leaves the guard
\* clear.
C12_FollowUpThenGuardCleared ==
  [][/\ \A i \in Insts :
          (setups'[i] < setups[i] /\ last'.kind = "start")
            => /\ nCycles' = nCycles + 1
               /\ cycles' = [cycles EXCEPT ![nCycles + 1] = NewCycle(i, TRUE, "followup")]
               /\ webhookSetupAttempted[i] /\ webhookSetupAttempted'[i]
     /\ \A c \in CycleIds :
          /\ FollowUp(c)' => webhookSetupAttempted'[cycles'[c].inst]
          /\ (FollowUp(c) /\ ~Running(c)')
               => /\ ~webhookSetupAttempted'[cycles[c].inst]
                  /\ setups'[cycles[c].inst] = setups[cycles[c].inst]
                  /\ cooldowns' = cooldowns]_vars

\* C12 witness: a setup-webhooks request has just succeeded: its silent
\* follow-up cycle is pending, the guard is set and no request is in flight
C12_Witness ==
  /\ last.kind = "start" /\ last.alive
  /\ mounted # 0
  /\ FollowUp(last.cycle) /\ cycles[last.cycle].inst = mounted
  /\ cycles[last.cycle].silent
  /\ webhookSetupAttempted[mounted] /\ setups[mounted] = 0

\* C13: a step that issues a sync request starts no fetch cycle, a
\* manual-refresh cycle starts only in a step in which a sync response of its
\* instance is received, and a step that starts a cycle of any other origin
\* issues no sync request.
C13_SyncBeforeFetch ==
  [][/\ \A i \in Insts : syncs'[i] > syncs[i] => nCycles' = nCycles
     /\ \A c \in CycleIds :
          (Running(c)' /\ ~Running(c))
            => IF cycles'[c].origin = "manual"
                 THEN syncs'[cycles'[c].inst] = syncs[cycles'[c].inst] - 1
                 ELSE syncs' = syncs]_vars

\* C13 witness: the sync request of a manual refresh has been answered and its
\* fetch cycle has just started
C13_Witness ==
  /\ last.kind = "start" /\ last.alive
  /\ mounted # 0
  /\ last.cycle \in RunningOf(mounted)
  /\ cycles[last.cycle].origin = "manual"
  /\ syncs[mounted] = 0 /\ refreshing /\ loading

\* the session has been ended: token removed, unauthenticated, no dashboard
SessionEnded == token = NoToken /\ ~isAuthenticated /\ mounted = 0

\* C14: a step in which the sync request of a manual refresh fails with 401 or
\* 403, or in which the fetch cycle of a manual refresh is rejected with 401 or
\* 403, invokes the logout callback exactly once and ends the session.
C14_ManualRefreshAuthFailure ==
  [][/\ (last'.kind = "syncFail" /\ last'.cls = "auth")
          => last'.logouts = 1 /\ SessionEnded'
     /\ \A c \in CycleIds :
          (/\ Running(c) /\ cycles[c].origin = "manual"
           /\ last'.kind = "fail" /\ last'.cycle = c /\ last'.cls = "auth")
            => /\ last'.logouts = 1 /\ cycles'[c].logouts <= 1
               /\ SessionEnded']_vars

\* C14 witness: the sync request of a manual refresh on the mounted dashboard
\* has just failed with 401/403 and the session is over
C14_Witness ==
  /\ last.kind = "syncFail" /\ last.cls = "auth" /\ last.alive
  /\ last.logouts = 1
  /\ SessionEnded

\* a manual refresh of instance i is under way: its sync request is in flight
\* or its fetchAllData is awaited
ManualRefreshUnderWay(i) ==
  \/ syncs[i] > 0
  \/ \E c \in RunningOf(i) : cycles[c].origin = "manual"

\* C15: on the mounted dashboard the refreshing flag is true exactly while a
\* manual refresh is under way: true from its start, false once it has
\* returned, whatever the outcome; without a dashboard it is false.
C15_RefreshingWhileUnderWay ==
  IF mounted = 0 THEN ~refreshing
  ELSE refreshing <=> ManualRefreshUnderWay(mounted)

\* C15 witness: a manual refresh has just returned after a non-auth failure of
\* its sync request, and the flag is false on the dashboard still mounted
C15_Witness ==
  /\ last.kind = "syncFail" /\ last.cls = "other" /\ last.alive
  /\ mounted # 0 /\ ~ManualRefreshUnderWay(mounted)
  /\ ~refreshing

\* C16: the step that starts a silent cycle leaves loading as it is, and so
\* does the step in which it returns unless that step unmounts the dashboard;
\* the step that starts a non-silent cycle of the mounted dashboard sets
\* loading, and after the step in which it returns (success, non-auth failure
\* or 401/403) loading is false.
C16_LoadingOnlyNonSilent ==
  [][\A c \in CycleIds :
       /\ (Running(c)' /\ ~Running(c))
            => IF cycles'[c].silent THEN loading' = loading
               ELSE mounted' = cycles'[c].inst => loading'
       /\ (Running(c) /\ ~Running(c)')
            => IF cycles[c].silent THEN mounted' = mounted => loading' = loading
               ELSE mounted = cycles[c].inst => ~loading']_vars

\* C16 witness: a silent timer-driven cycle has just succeeded on the mounted
\* dashboard while a non-silent cycle is pending, and loading is still true
C16_Witness ==
  /\ last.kind = "success" /\ last.alive
  /\ mounted # 0 /\ loading
  /\ userInfo = last.cycle
  /\ \E c \in RunningOf(mounted) : ~cycles[c].silent

\* the initial cycles of instance i (fetchAllData() of the effect body) whose
\* Promise.all is pending
InitialsOf(i) == {c \in RunningOf(i) : cycles[c].origin = "initial"}

\* C17: the cycle started by the effect body is non-silent and every cycle
\* started by the interval is silent; a mounted dashboard has exactly one
\* interval; and as long as the polling effect has run once per mount, an
\* instance has at most one initial cycle and loading is true while the initial
\* cycle of the mounted dashboard is pending, whatever timer-driven cycles
\* have completed meanwhile.
C17_InitialLoadAndSilentTimer ==
  /\ \A c \in CycleIds :
       /\ cycles[c].origin = "initial" => ~cycles[c].silent
       /\ cycles[c].origin = "timer" => cycles[c].silent
  /\ mounted # 0 => Cardinality(TimersOf(mounted)) = 1
  /\ nRerun = 0 =>
       /\ \A i \in Insts : Cardinality(InitialsOf(i)) <= 1
       /\ (mounted # 0 /\ InitialsOf(mounted) # {}) => loading

\* C17 witness: a timer-driven cycle has just completed on the mounted
\* dashboard while its initial cycle is pending, and loading is true
C17_Witness ==
  /\ nRerun = 0 /\ mounted # 0
  /\ InitialsOf(mounted) # {}
  /\ last.kind = "success" /\ last.alive /\ FiveFrom(last.cycle)
  /\ last.cycle > 1
  /\ loading

\* C18 as stated: whenever a request of a cycle of the mounted dashboard has
\* been answered with 401 or 403, the session has ended and no polling timer
\* is left.
C18_AsStated ==
  (last.alive /\ last.cls = "auth" /\ last.req \in {"mandatory", "webhook-status"})
    => SessionEnded /\ intervals = {}

\* C18 amended: when a cycle of the mounted dashboard is rejected by a 401 or
\* 403 of a mandatory request, the token is removed, the session is
\* unauthenticated, the dashboard is unmounted and no polling timer is left;
\* a timer-driven cycle is only ever started for a mounted dashboard.
C18_AuthRejectionEndsSession ==
  /\ (last.kind = "fail" /\ last.alive /\ last.cls = "auth")
       => SessionEnded /\ intervals = {}
  /\ \A t \in intervals : t.inst = mounted
  /\ \A c \in CycleIds :
       (last.kind = "start" /\ last.cycle = c /\ cycles[c].origin = "timer")
         => last.alive

\* C18 witness: a timer-driven cycle of the mounted dashboard has been rejected
\* with 401/403 after the first period: the session is over, no timer is left
C18_Witness ==
  /\ last.kind = "fail" /\ last.alive /\ last.cls = "auth"
  /\ last.cycle > 1 /\ now >= PollPeriod
  /\ SessionEnded /\ intervals = {}
  /\ nTimers > 0

Abs(x) == IF x < 0 THEN 0 - x ELSE x

\* C19: the average order value is 0 when there is no overview or when
\* total_orders is not greater than 0; otherwise it is an integer nearest to
\* total_revenue / total_orders; total_revenue 1000 with total_orders 4 gives 250.
C19_AvgOrderValue ==
  /\ (~avgView.present \/ avgView.total_orders <= 0) => avgView.avg = 0
  /\ (avgView.present /\ avgView.total_orders > 0)
       => 2 * Abs(avgView.avg * avgView.total_orders - avgView.total_revenue)
            <= avgView.total_orders
  /\ (avgView.present /\ avgView.total_orders = 4 /\ avgView.total_revenue = 1000)
       => avgView.avg = 250

\* C19 witness: the overview of the scenario is rendered with 250
C19_Witness ==
  /\ avgView.present
  /\ avgView.total_orders = 4 /\ avgView.total_revenue = 1000
  /\ avgView.avg = 250

\* C20: on a dashboard that stays mounted, the display entities and the
\* timestamp change only in a step in which one of its cycles succeeds, and
\* after such a step all six entities hold that cycle's responses and the
\* timestamp its completion time, whether the cycle started before or after
\* the one whose responses were shown; so the display always comes from the
\* one cycle that succeeded most recently.
C20_LastWriteWins ==
  [][/\ (mounted # 0 /\ mounted' = mounted /\ entityVars' # entityVars)
          => last'.kind = "success" /\ last'.alive
     /\ (last'.kind = "success" /\ last'.alive)
          => /\ FiveFrom(last.cycle)'
             /\ webhookStatus'.cycle = last'.cycle
             /\ lastDashboardUpdate' = now']_vars

\* C20 witness: of two overlapping cycles the later one succeeded first,
\* reporting an inactive integration (its setup request is still in flight),
\* and the initial cycle has just succeeded and replaced its data
C20_Witness ==
  /\ last.kind = "success" /\ last.alive /\ last.cycle = 1
  /\ last.data = "active"
  /\ mounted = 1 /\ nCycles = 2 /\ nRerun = 0
  /\ FiveFrom(1) /\ webhookStatus = [cycle |-> 1, data |-> "active"]
  /\ setups[1] = 1 /\ lastFailAt[1] < 0

\* C21: a step issues a setup-webhooks request for an instance only when it is
\* the step in which a cycle of that instance succeeds with a non-null webhook
\* status whose webhooks_active is false, and the guard of the instance was
\* clear before it; it then issues exactly one. So a cycle that is rejected, a
\* cycle whose webhook-status request failed (null) and a cycle that reports an
\* active integration issue none.
C21_SetupOnlyOnInactiveSuccess ==
  [][\A i \in Insts :
       setups'[i] > setups[i]
         => /\ setups'[i] = setups[i] + 1
            /\ last'.kind = "success" /\ last'.data = "inactive"
            /\ last'.cycle \in CycleIds
            /\ Running(last'.cycle) /\ cycles[last'.cycle].inst = i
            /\ ~webhookSetupAttempted[i]]_vars

\* C21 witness: a timer-driven cycle, after earlier cycles that issued nothing,
\* has just reported an inactive integration and the first setup request of
\* the instance is in flight
C21_Witness ==
  /\ last.kind = "success" /\ last.data = "inactive" /\ last.alive
  /\ last.cycle > 1 /\ now >= PollPeriod
  /\ mounted # 0 /\ setups[mounted] = 1 /\ webhookSetupAttempted[mounted]
  /\ webhookStatus = [cycle |-> last.cycle, data |-> "inactive"]
  /\ lastFailAt[mounted] < 0 /\ cooldowns = {}

\* C22: the step in which the sync request of a manual refresh fails starts no
\* fetch cycle and invokes the logout callback once if the status is 401 or
\* 403 and not at all otherwise; when it does not invoke it, the six display
\* entities, the timestamp, the loading flag and the session are as before;
\* when it does, the session is ended and the dashboard is gone.
C22_SyncFailureStartsNoFetch ==
  [][last'.kind = "syncFail"
       => /\ nCycles' = nCycles /\ cycles' = cycles
          /\ last'.logouts = (IF last'.cls = "auth" THEN 1 ELSE 0)
          /\ last'.cls # "auth"
               => UNCHANGED <<entityVars, loading, homeVars, timerVars>>
          /\ last'.cls = "auth" => SessionEnded']_vars

\* C22 witness: a dashboard showing data fetched one period ago has had the
\* sync request of a manual refresh fail with a non-auth error: it shows the
\* same data and timestamp, is not loading, and no cycle is pending
C22_Witness ==
  /\ last.kind = "syncFail" /\ last.cls = "other" /\ last.alive
  /\ last.logouts = 0
  /\ mounted # 0 /\ token # NoToken /\ isAuthenticated
  /\ userInfo # 0 /\ FiveFrom(userInfo)
  /\ lastDashboardUpdate >= 0 /\ lastDashboardUpdate < now
  /\ ~loading /\ RunningOf(mounted) = {}

\* the step is one of a manual refresh: its start, the failure of its sync
\* request, the start of its fetch cycle or the return of that cycle
ManualRefreshStep ==
  \/ last'.kind \in {"manual", "syncFail"}
  \/ \E c \in CycleIds :
       /\ cycles'[c].origin = "manual" \/ cycles[c].origin = "manual"
       /\ Running(c) # Running(c)'

\* C23 as stated: the fetch cycle of a manual refresh that began while a
\* cooldown of the dashboard was pending returns without a setup-webhooks
\* request being issued.
C23_AsStated ==
  [][\A c \in CycleIds :
       (/\ refreshInCooldown /\ mounted # 0 /\ cycles[c].inst = mounted
        /\ cycles[c].origin = "manual" /\ Running(c) /\ ~Running(c)')
         => setups' = setups]_vars

\* C23 amended: no step of a manual refresh clears a guard that is set,
\* schedules or cancels a cooldown, or issues a setup-webhooks request for an
\* instance whose guard is set; so a manual refresh that runs while the
\* cooldown is pending leaves the remediation state alone. (When the cooldown
\* expires before the fetch cycle returns, the guard is clear again and the
\* cycle may issue a request as any other cycle does.)
C23_RefreshKeepsGuard ==
  [][ManualRefreshStep
       => /\ cooldowns' = cooldowns
          /\ \A i \in Insts :
               webhookSetupAttempted[i]
                 => webhookSetupAttempted'[i] /\ setups'[i] = setups[i]]_vars

\* C23 witness: a manual refresh that began during the cooldown has had its
\* sync answered and its fetch cycle is pending: refreshing and loading are
\* true while the guard is held by the pending cooldown
C23_Witness ==
  /\ mounted # 0 /\ refreshing /\ loading /\ refreshInCooldown
  /\ CooldownPending(mounted) /\ webhookSetupAttempted[mounted]
  /\ setups[mounted] = 0 /\ syncs[mounted] = 0
  /\ \E c \in RunningOf(mounted) : cycles[c].origin = "manual"

\* the last response to a form's request had success true and a non-empty token
LastAuthAccepted ==
  form.answer.kind = "body" /\ form.answer.success /\ form.answer.token # ""

\* C24: a token is written to storage, and a session without one becomes
\* authenticated, only in the step in which a login or register response with
\* success true and a non-empty token is received; the step in which any other
\* response or a request failure is received leaves the token and the session
\* as they were, and when the form that sent the request is the one rendered,
\* the session is unauthenticated without a token afterwards, the form's error
\* message is non-empty and its loading flag is false; the loading flag is
\* false after every response to the rendered form.
C24_SessionOnlyOnAcceptedResponse ==
  [][/\ (token' # token /\ token' # NoToken)
          => last'.kind = "auth" /\ LastAuthAccepted'
     /\ (isAuthenticated' /\ ~isAuthenticated /\ token = NoToken)
          => last'.kind = "auth" /\ LastAuthAccepted'
     /\ (last'.kind = "auth" /\ ~LastAuthAccepted')
          => /\ UNCHANGED <<token, isAuthenticated, mounted>>
             /\ form'.answer.live
                  => /\ ~isAuthenticated' /\ token' = NoToken
                     /\ form'.error # "" /\ ~form'.loading
     /\ (last'.kind = "auth" /\ form'.answer.live) => ~form'.loading]_vars

\* C24 witness: the login request failed without a response of the server:
\* the form shows the default message, is not loading, and there is no session
C24_Witness ==
  /\ last.kind = "auth" /\ form.answer.live /\ form.answer.form = "login"
  /\ form.answer.kind = "axiosError" /\ form.answer.error = ""
  /\ form.error = "Login failed" /\ ~form.loading
  /\ ~isAuthenticated /\ token = NoToken /\ mounted = 0

\* C25: the step in which the first mandatory failure of a cycle arrives
\* invokes the logout callback once if that failure carries 401 or 403 and not
\* at all otherwise; a step in which a later mandatory response of the same
\* cycle arrives, a 401/403 included, invokes nothing and changes nothing of
\* the session, the display, the flags, the timers or the remediation state.
C25_FirstFailureDecides ==
  [][/\ (last'.kind = "fail" /\ last'.req = "mandatory")
          => /\ last'.logouts = (IF last'.cls = "auth" THEN 1 ELSE 0)
             /\ cycles'[last'.cycle].logouts = last'.logouts
                  \/ cycles'[last'.cycle] = NoCycle
     /\ last'.kind = "late"
          => /\ UNCHANGED <<homeVars, entityVars, flagVars, timerVars, remedyVars,
                            syncs, nCycles>>
             /\ last'.logouts <= 1
             /\ \A c \in CycleIds :
                  cycles'[c] # cycles[c]
                    => /\ cycles[c].phase = "rejected"
                       /\ cycles'[c] = NoCycle
                            \/ cycles'[c].logouts = cycles[c].logouts]_vars

\* C25 witness: a cycle of the mounted dashboard was rejected by a non-auth
\* failure, and a 401/403 of another of its mandatory requests has just
\* arrived: no logout, the session and the dashboard are still there
C25_Witness ==
  /\ last.kind = "late" /\ last.cls = "auth" /\ last.logouts = 0
  /\ mounted # 0 /\ token # NoToken /\ isAuthenticated
  /\ \E c \in CycleIds : cycles[c].phase = "rejected" /\ cycles[c].inst = mounted

\* what holds the guard of instance i: its setup-webhooks requests in flight,
\* its follow-up cycles awaited, and its cooldown timers pending
GuardHolders(i) ==
  setups[i]
    + Cardinality({c \in CycleIds : FollowUp(c) /\ cycles[c].inst = i})
    + Cardinality({cd \in cooldowns : cd.inst = i})

\* C26: for every dashboard instance, mounted or not, the guard is set if and
\* only if exactly one of a setup-webhooks request, a follow-up fetch and a
\* cooldown timer is pending for it, and never more than one of them is; so
\* at most one cooldown timer is pending, and none is left over to clear the
\* guard of a later attempt.
C26_GuardIffOnePending ==
  \A i \in Insts :
    /\ GuardHolders(i) <= 1
    /\ webhookSetupAttempted[i] <=> GuardHolders(i) = 1

\* C26 witness: the second attempt of the dashboard, made after the cooldown
\* of the first had expired, has failed too: one cooldown timer is pending,
\* that of the second failure, and the guard is set
C26_Witness ==
  /\ mounted # 0 /\ last.kind = "setupFail"
  /\ lastFailAt[mounted] >= Cooldown
  /\ cooldowns = {[inst |-> mounted, due |-> lastFailAt[mounted] + Cooldown]}
  /\ webhookSetupAttempted[mounted] /\ setups[mounted] = 0

\* a cooldown of instance i ends after the last tick of the clock
BeyondHorizon(i) ==
  \E cd \in cooldowns : cd.inst = i /\ cd.due > MaxTicks * Tick

\* C27: when every request is answered in the end and every timeout whose
\* delay has passed runs, a guard that is set is cleared later on, be it after
\* the follow-up fetch of a successful setup or after the cooldown of a failed
\* one (for a cooldown that ends within the run of the clock).
C27_GuardEventuallyCleared ==
  \A i \in Insts :
    webhookSetupAttempted[i] ~> (~webhookSetupAttempted[i] \/ BeyondHorizon(i))

\* C27 witness: the cooldown of a failed attempt has just expired and the
\* guard of the mounted dashboard is clear again
C27_Witness ==
  /\ last.kind = "cooldown" /\ mounted # 0
  /\ lastFailAt[mounted] >= 0 /\ now >= lastFailAt[mounted] + Cooldown
  /\ ~webhookSetupAttempted[mounted]
  /\ cooldowns = {} /\ setups[mounted] = 0

\* C28: the step in which a setup-webhooks request fails, with 401 or 403 as
\* with any other status, does not invoke the logout callback and leaves the
\* session, the six display entities, the timestamp, loading and refreshing,
\* the polling timer and the fetch cycles as they were; it leaves the guard
\* set and schedules its clearing 30 seconds later, and does nothing else.
C28_SetupFailureOnlyCooldown ==
  [][last'.kind = "setupFail"
       => /\ last'.logouts = 0
          /\ UNCHANGED <<homeVars, entityVars, flagVars, timerVars, cycles,
                         nCycles, syncs, webhookSetupAttempted>>
          /\ \E i \in Insts :
               /\ webhookSetupAttempted'[i]
               /\ setups' = Dec(setups, i)
               /\ cooldowns' = cooldowns \cup {[inst |-> i, due |-> now + Cooldown]}
               /\ cooldowns' # cooldowns]_vars

\* C28 witness: the setup request of a dashboard showing data has just failed
\* with 401/403: the session and the data are still there, the cooldown runs
C28_Witness ==
  /\ last.kind = "setupFail" /\ last.cls = "auth" /\ last.alive
  /\ mounted # 0 /\ token # NoToken /\ isAuthenticated
  /\ userInfo # 0 /\ webhookStatus.data = "inactive"
  /\ cooldowns = {[inst |-> mounted, due |-> now + Cooldown]}
  /\ webhookSetupAttempted[mounted]

\* C29: once Home's effect has read the storage, the session is authenticated
\* if and only if the storage holds a token, and the Dashboard is rendered if
\* and only if the session is authenticated; before that, no session is
\* authenticated and no Dashboard is rendered.
C29_AuthenticatedIffToken ==
  /\ ~pageLoading
       => /\ isAuthenticated <=> token # NoToken
          /\ isAuthenticated <=> mounted # 0
  /\ pageLoading => ~isAuthenticated /\ mounted = 0

\* C29 witness: after a logout and a second login the storage holds the new
\* token and the second dashboard is shown
C29_Witness ==
  /\ ~pageLoading /\ isAuthenticated
  /\ nInst = 2 /\ mounted = 2 /\ token = 2

\* C30: a step issues a sync request only for the mounted dashboard, in a state
\* where loading and refreshing are both false and no manual refresh of it is
\* under way; after the step refreshing is true and that refresh is the only
\* one of the instance: one sync request in flight, no manual cycle pending.
C30_RefreshOnlyWhenIdle ==
  [][\A i \in Insts :
       syncs'[i] > syncs[i]
         => /\ mounted = i /\ ~loading /\ ~refreshing
            /\ ~ManualRefreshUnderWay(i)
            /\ refreshing' /\ syncs'[i] = 1
            /\ \A c \in CycleIds :
                 (Running(c)' /\ cycles'[c].inst = i) => cycles'[c].origin # "manual"]_vars

\* C30 witness: a manual refresh has just begun on a dashboard that is not
\* loading, while a timer-driven cycle of it is pending
C30_Witness ==
  /\ last.kind = "manual" /\ mounted # 0
  /\ ~loading /\ refreshing /\ syncs[mounted] = 1
  /\ \E c \in RunningOf(mounted) : cycles[c].origin = "timer"

====
